---- MODULE Spec2Model ----
(***************************************************************************)
(* Model of the multiplayer lobby service (createMultiplayerService) and   *)
(* of the two store tables it works on (game_lobbies, lobby_players).      *)
(*                                                                         *)
(* One service instance runs per process; the participant id a process     *)
(* passes to the service is the process itself (the store's row policies   *)
(* require auth.uid() = player_id / host_id).                              *)
(*                                                                         *)
(* Every `await` of the source is a yield point: the store call is         *)
(* executed at the store in the step that issues it, its result is kept in *)
(* the suspended task, and the code after the await is a later step, so    *)
(* callbacks and other calls of any process interleave in between.          *)
(* The handler of a membership change-feed event awaits refreshPlayers and *)
(* then calls checkAllReady with no store call in between: the resumption   *)
(* of refreshPlayers and checkAllReady are one step.                       *)
(***************************************************************************)
EXTENDS Integers, FiniteSets, Sequences, TLC

\* ------------------------------------------------------------------ bounds
MaxLobbies == 2       \* lobby rows ever inserted
MaxCalls == 3         \* calls made by the application layer, all processes
MaxRedeliver == 1     \* change-feed events delivered once more than once
MaxLobbyCalls == 2    \* calls made in an established lobby
MaxBroadcast == 1     \* broadcast messages in flight
MaxMatchCalls == 4    \* calls made in the match-from-nothing scenario
MaxFaultCalls == 2    \* calls made when store calls may fail
MaxListenCalls == 3   \* calls made on the broadcast channel

Procs == {"A", "B"}
LobbyIds == 1..MaxLobbies

\* Math.random(): the digits of the fraction in base 36, as toString(36)
\* prints them after "0." (0.5 prints as "0.i": one digit).
RandomFractions ==
    { <<"a", "b", "1", "2", "c", "d", "x", "y">>, <<"i">> }

Upper(c) ==
    CASE c = "a" -> "A" [] c = "b" -> "B" [] c = "c" -> "C" [] c = "d" -> "D"
      [] c = "i" -> "I" [] c = "x" -> "X" [] c = "y" -> "Y" [] OTHER -> c

ToUpperCase(s) == [k \in 1..Len(s) |-> Upper(s[k])]

\* "0." followed by the digits: substring(2, 8) keeps at most 6 of them.
Substring2to8(digits) ==
    SubSeq(digits, 1, IF Len(digits) < 6 THEN Len(digits) ELSE 6)

generateLobbyCode(r) == ToUpperCase(Substring2to8(r))

GenCodes == { generateLobbyCode(r) : r \in RandomFractions }

\* codes the application passes to joinByCode
\* game states the application passes to broadcastGameState
GameStates == [playerId : Procs \cup {"undefined"}, gameOver : BOOLEAN]

CodeInputs == { <<"a", "b", "1", "2", "C", "D">>, <<"i">> }

\* ------------------------------------------------------------------- bags
NoEvents == [x \in {} |-> 0]

BagAdd(b, e) ==
    IF e \in DOMAIN b THEN [b EXCEPT ![e] = @ + 1]
    ELSE [x \in DOMAIN b \cup {e} |-> IF x = e THEN 1 ELSE b[x]]

BagRemove(b, e) ==
    IF b[e] = 1 THEN [x \in DOMAIN b \ {e} |-> b[x]]
    ELSE [b EXCEPT ![e] = @ - 1]

\* ------------------------------------------------------------ store values
NoLobby == [id |-> 0, code |-> <<>>, host_id |-> "", status |-> "none"]

\* payload.new of a DELETE event, which carries no new row: the transport
\* leaves it out (falsy) or hands the empty object {} (truthy, every field
\* undefined)
EmptyRow == [id |-> 0, code |-> <<>>, host_id |-> "", status |-> "undefined"]
DeletedNew == {NoLobby, EmptyRow}

VARIABLES
    \* the shared store
    game_lobbies,         \* set of lobby rows
    lobby_players,        \* set of membership rows
    nextId,               \* next fresh lobby id (creation order)
    \* the service instance of each process
    currentLobby,
    lobbyPlayers,
    lobbySubscription,    \* lobby id of the channel lobby:<id>, 0 when null
    playersSubscription,  \* lobby id of the channel lobby_players:<id>, or 0
    isHost,
    gameChannels,         \* broadcast channels game:<id> with a listener
    \* suspended async calls of each process
    call,                 \* createLobby / findOrCreateLobby / joinByCode
    leave,                \* leaveLobby
    refresh,              \* refreshPlayers re-reads whose answer is pending
    \* the realtime transport
    lobbyEv,              \* undelivered game_lobbies events (payload.new)
    playersEv,            \* number of undelivered lobby_players events
    broadcastEv,          \* undelivered broadcast messages
    \* observation of the consumer callbacks and of the steps taken
    gameStarts,           \* number of onGameStart invocations
    startWrites,          \* update({status: 'playing'}) issued, per lobby id
    lobbyCb,              \* last argument of onLobbyUpdate
    oppCb,                \* arguments of onOpponentScore, with their counts
    received,             \* payloads handed to the broadcast handlers
    playersCb,            \* last argument of onPlayersUpdate
    returned,             \* what the last call of the application returned
    budget,               \* calls the application layer may still make
    redeliver             \* events the transport may still deliver twice

vars == <<game_lobbies, lobby_players, nextId, currentLobby, lobbyPlayers,
          lobbySubscription, playersSubscription, isHost, gameChannels,
          call, leave, refresh, lobbyEv, playersEv, broadcastEv,
          gameStarts, startWrites, lobbyCb, oppCb, received, playersCb,
          returned, budget, redeliver>>

\* the local session context of a process
Context(p) ==
    [currentLobby |-> currentLobby[p], lobbyPlayers |-> lobbyPlayers[p],
     isHost |-> isHost[p], lobbySubscription |-> lobbySubscription[p],
     playersSubscription |-> playersSubscription[p]]

NoContext ==
    [currentLobby |-> NoLobby, lobbyPlayers |-> {}, isHost |-> FALSE,
     lobbySubscription |-> 0, playersSubscription |-> 0]

\* a suspended call: where it is, the answer of its last store call, the
\* error of a store call of it that failed ("": none), and the context it
\* was called in
NoCall ==
    [op |-> "none", pc |-> "idle", ok |-> FALSE, row |-> NoLobby,
     error |-> "", before |-> NoContext]

\* the context the call in progress on p was called in
Before(p) == IF call[p] = NoCall THEN Context(p) ELSE call[p].before

\* what a call returned: a lobby row (null: NoLobby) or a boolean, and the
\* error of a store call made by it, if one failed
NoReturn == [op |-> "none", lobby |-> NoLobby, flag |-> FALSE, error |-> ""]
ReturnsLobby(op, row, error) ==
    [op |-> op, lobby |-> row, flag |-> FALSE, error |-> error]
ReturnsFlag(op, flag, error) ==
    [op |-> op, lobby |-> NoLobby, flag |-> flag, error |-> error]

\* the last argument of onPlayersUpdate, and whether the last resumption of
\* refreshPlayers went without calling it
NoPlayersCb == [players |-> {}, skipped |-> FALSE]
OnPlayersUpdate(players) == [players |-> players, skipped |-> FALSE]

Init ==
    /\ game_lobbies = {}
    /\ lobby_players = {}
    /\ nextId = 1
    /\ currentLobby = [p \in Procs |-> NoLobby]
    /\ lobbyPlayers = [p \in Procs |-> {}]
    /\ lobbySubscription = [p \in Procs |-> 0]
    /\ playersSubscription = [p \in Procs |-> 0]
    /\ isHost = [p \in Procs |-> FALSE]
    /\ gameChannels = [p \in Procs |-> NoEvents]
    /\ call = [p \in Procs |-> NoCall]
    /\ leave = [p \in Procs |-> "idle"]
    /\ refresh = [p \in Procs |-> {}]
    /\ lobbyEv = [p \in Procs |-> NoEvents]
    /\ playersEv = [p \in Procs |-> 0]
    /\ broadcastEv = {}
    /\ gameStarts = [p \in Procs |-> 0]
    /\ startWrites = [l \in 0..MaxLobbies |-> 0]
    /\ lobbyCb = [p \in Procs |-> NoLobby]
    /\ oppCb = [p \in Procs |-> NoEvents]
    /\ received = [p \in Procs |-> {}]
    /\ playersCb = [p \in Procs |-> NoPlayersCb]
    /\ returned = [p \in Procs |-> NoReturn]
    /\ budget = MaxCalls
    /\ redeliver = MaxRedeliver

\* ------------------------------------------------------------- the store
MembersOf(l) == { m \in lobby_players : m.lobby_id = l }

LobbyRow(l) ==
    IF \E r \in game_lobbies : r.id = l
    THEN CHOOSE r \in game_lobbies : r.id = l
    ELSE NoLobby

Member(l, p, ready) == [lobby_id |-> l, player_id |-> p, is_ready |-> ready]

\* lobby_players.lobby_id REFERENCES game_lobbies(id);
\* UNIQUE(lobby_id, player_id)
CanInsertPlayer(l, p) ==
    /\ LobbyRow(l) # NoLobby
    /\ ~ \E m \in lobby_players : m.lobby_id = l /\ m.player_id = p

\* change feed: one lobby_players event to each channel lobby_players:<l>
PlayersNotify(ev, l, n) ==
    [q \in Procs |-> IF playersSubscription[q] = l /\ l # 0
                     THEN ev[q] + n ELSE ev[q]]

\* change feed: one game_lobbies event (payload.new) to each channel lobby:<l>
LobbyNotify(ev, l, payload) ==
    [q \in Procs |-> IF lobbySubscription[q] = l /\ l # 0
                     THEN BagAdd(ev[q], payload) ELSE ev[q]]


\* ------------------------------------------------- lobby lifecycle calls
\* a call of `op` on p suspended at `pc` with the answer (ok, row)
Suspended(p, op, pc, ok, row, error) ==
    [op |-> op, pc |-> pc, ok |-> ok, row |-> row,
     error |-> error, before |-> Before(p)]

\* The insert of createLobby, executed at the store: a code already used by a
\* lobby row is rejected (code TEXT UNIQUE); the store gives the row its id.
InsertLobby(p, op, code) ==
    /\ nextId <= MaxLobbies
    /\ IF \E r \in game_lobbies : r.code = code
       THEN /\ call' = [call EXCEPT ![p] =
                          Suspended(p, op, "inserted", FALSE, NoLobby,
                                    "unique")]
            /\ UNCHANGED <<game_lobbies, nextId>>
       ELSE LET row == [id |-> nextId, code |-> code, host_id |-> p,
                        status |-> "waiting"]
            IN /\ game_lobbies' = game_lobbies \cup {row}
               /\ nextId' = nextId + 1
               /\ call' = [call EXCEPT ![p] =
                             Suspended(p, op, "inserted", TRUE, row,
                                       call[p].error)]

\* the same insert when the store call fails: { data: null, error }
InsertLobbyFails(p, op) ==
    /\ call' = [call EXCEPT ![p] =
                  Suspended(p, op, "inserted", FALSE, NoLobby, "failed")]
    /\ UNCHANGED <<game_lobbies, nextId>>

\* the error of the insert of joinLobby(l, p), "" when it succeeds
JoinError(l, p) ==
    IF LobbyRow(l) = NoLobby THEN "foreign_key"
    ELSE IF ~ CanInsertPlayer(l, p) THEN "unique"
    ELSE ""

\* the error a call keeps after one more store call whose error is `error`
Errors(p, error) == IF error = "" THEN call[p].error ELSE error

\* the insert of joinLobby at a store without UNIQUE(lobby_id, player_id)
joinLobbyNoUnique(l, p) ==
    IF LobbyRow(l) # NoLobby
    THEN /\ lobby_players' = lobby_players \cup {Member(l, p, FALSE)}
         /\ playersEv' = PlayersNotify(playersEv, l, 1)
    ELSE UNCHANGED <<lobby_players, playersEv>>

\* joinLobby(lobbyId, playerId), executed at the store; an error is logged
\* only.
joinLobby(l, p) ==
    IF CanInsertPlayer(l, p)
    THEN /\ lobby_players' = lobby_players \cup {Member(l, p, FALSE)}
         /\ playersEv' = PlayersNotify(playersEv, l, 1)
    ELSE UNCHANGED <<lobby_players, playersEv>>

\* createLobby up to its first await
CreateLobby(p) ==
    /\ call[p] = NoCall
    /\ budget > 0
    /\ budget' = budget - 1
    /\ \E r \in RandomFractions : InsertLobby(p, "create", generateLobbyCode(r))
    /\ playersCb' = playersCb
    /\ returned' = returned
    /\ UNCHANGED <<oppCb, received, lobby_players, currentLobby, lobbyPlayers,
                   lobbySubscription, playersSubscription, isHost,
                   gameChannels, leave, refresh, lobbyEv, playersEv,
                   broadcastEv, gameStarts, startWrites, lobbyCb, redeliver>>

\* createLobby whose insert fails for a reason of the store or the network
CreateLobbyFails(p) ==
    /\ call[p] = NoCall
    /\ budget > 0
    /\ budget' = budget - 1
    /\ InsertLobbyFails(p, "create")
    /\ playersCb' = playersCb
    /\ returned' = returned
    /\ UNCHANGED <<oppCb, received, lobby_players, currentLobby, lobbyPlayers,
                   lobbySubscription, playersSubscription, isHost,
                   gameChannels, leave, refresh, lobbyEv, playersEv,
                   broadcastEv, gameStarts, startWrites, lobbyCb, redeliver>>

\* createLobby after the insert: error -> null; else context, then joinLobby
CreateLobbyInserted(p) ==
    /\ call[p].pc = "inserted"
    /\ IF ~ call[p].ok
       THEN /\ call' = [call EXCEPT ![p] = NoCall]
            /\ returned' =
                   [returned EXCEPT ![p] =
                        ReturnsLobby(call[p].op, NoLobby, call[p].error)]
            /\ UNCHANGED <<currentLobby, isHost, lobby_players, playersEv>>
       ELSE /\ currentLobby' = [currentLobby EXCEPT ![p] = call[p].row]
            /\ isHost' = [isHost EXCEPT ![p] = TRUE]
            /\ joinLobby(call[p].row.id, p)
            /\ call' = [call EXCEPT
                          ![p].pc = "joined",
                          ![p].error = Errors(p, JoinError(call[p].row.id, p))]
            /\ returned' = returned
    /\ playersCb' = playersCb
    /\ UNCHANGED <<oppCb, received, game_lobbies, nextId, lobbyPlayers,
                   lobbySubscription, playersSubscription, gameChannels,
                   leave, refresh, lobbyEv, broadcastEv, gameStarts,
                   startWrites, lobbyCb, budget, redeliver>>

\* createLobby after a successful insert, the insert of joinLobby failing
CreateLobbyInsertedJoinFails(p) ==
    /\ call[p].pc = "inserted"
    /\ call[p].ok
    /\ currentLobby' = [currentLobby EXCEPT ![p] = call[p].row]
    /\ isHost' = [isHost EXCEPT ![p] = TRUE]
    /\ call' = [call EXCEPT ![p].pc = "joined", ![p].error = "failed"]
    /\ playersCb' = playersCb
    /\ returned' = returned
    /\ UNCHANGED <<oppCb, received, game_lobbies, lobby_players, nextId,
                   lobbyPlayers, lobbySubscription, playersSubscription,
                   gameChannels, leave, refresh, lobbyEv, playersEv,
                   broadcastEv, gameStarts, startWrites, lobbyCb, budget,
                   redeliver>>

\* the same query ordered by created_at descending
NewestWaiting(p) ==
    LET cands == { r \in game_lobbies : r.status = "waiting" /\ r.host_id # p }
    IN IF cands = {} THEN NoLobby
       ELSE CHOOSE r \in cands : \A o \in cands : r.id >= o.id

\* the query of findOrCreateLobby: the oldest waiting lobby of another host
OldestWaiting(p) ==
    LET cands == { r \in game_lobbies : r.status = "waiting" /\ r.host_id # p }
    IN IF cands = {} THEN NoLobby
       ELSE CHOOSE r \in cands : \A o \in cands : r.id <= o.id

FindOrCreateLobby(p) ==
    /\ call[p] = NoCall
    /\ budget > 0
    /\ budget' = budget - 1
    /\ call' = [call EXCEPT ![p] =
                  Suspended(p, "find", "selected", OldestWaiting(p) # NoLobby,
                            OldestWaiting(p), "")]
    /\ playersCb' = playersCb
    /\ returned' = returned
    /\ UNCHANGED <<oppCb, received, game_lobbies, lobby_players, nextId,
                   currentLobby, lobbyPlayers, lobbySubscription,
                   playersSubscription, isHost, gameChannels, leave, refresh,
                   lobbyEv, playersEv, broadcastEv, gameStarts, startWrites,
                   lobbyCb, redeliver>>

\* findOrCreateLobby whose query fails: existingLobbies is null
FindOrCreateLobbyFails(p) ==
    /\ call[p] = NoCall
    /\ budget > 0
    /\ budget' = budget - 1
    /\ call' = [call EXCEPT ![p] =
                  Suspended(p, "find", "selected", FALSE, NoLobby, "failed")]
    /\ playersCb' = playersCb
    /\ returned' = returned
    /\ UNCHANGED <<oppCb, received, game_lobbies, lobby_players, nextId,
                   currentLobby, lobbyPlayers, lobbySubscription,
                   playersSubscription, isHost, gameChannels, leave, refresh,
                   lobbyEv, playersEv, broadcastEv, gameStarts, startWrites,
                   lobbyCb, redeliver>>

\* a query by code that does not filter on the status
LobbyByCodeAnyStatus(input) ==
    LET hits == { r \in game_lobbies : r.code = ToUpperCase(input) }
    IN IF Cardinality(hits) = 1 THEN CHOOSE r \in hits : TRUE ELSE NoLobby

\* the query of joinByCode: eq(code, upper), eq(status, waiting), single()
LobbyByCode(input) ==
    LET hits == { r \in game_lobbies :
                    r.code = ToUpperCase(input) /\ r.status = "waiting" }
    IN IF Cardinality(hits) = 1 THEN CHOOSE r \in hits : TRUE ELSE NoLobby

JoinByCode(p, input) ==
    /\ call[p] = NoCall
    /\ budget > 0
    /\ budget' = budget - 1
    /\ call' = [call EXCEPT ![p] =
                  Suspended(p, "join", "selected", LobbyByCode(input) # NoLobby,
                            LobbyByCode(input), "")]
    /\ playersCb' = playersCb
    /\ returned' = returned
    /\ UNCHANGED <<oppCb, received, game_lobbies, lobby_players, nextId,
                   currentLobby, lobbyPlayers, lobbySubscription,
                   playersSubscription, isHost, gameChannels, leave, refresh,
                   lobbyEv, playersEv, broadcastEv, gameStarts, startWrites,
                   lobbyCb, redeliver>>

\* joinByCode whose query fails: error is set
JoinByCodeFails(p) ==
    /\ call[p] = NoCall
    /\ budget > 0
    /\ budget' = budget - 1
    /\ call' = [call EXCEPT ![p] =
                  Suspended(p, "join", "selected", FALSE, NoLobby, "failed")]
    /\ playersCb' = playersCb
    /\ returned' = returned
    /\ UNCHANGED <<oppCb, received, game_lobbies, lobby_players, nextId,
                   currentLobby, lobbyPlayers, lobbySubscription,
                   playersSubscription, isHost, gameChannels, leave, refresh,
                   lobbyEv, playersEv, broadcastEv, gameStarts, startWrites,
                   lobbyCb, redeliver>>

\* findOrCreateLobby / joinByCode after the query, a lobby found: context
\* (not host), then joinLobby
JoinSelected(p) ==
    /\ call[p].pc = "selected"
    /\ call[p].ok
    /\ currentLobby' = [currentLobby EXCEPT ![p] = call[p].row]
    /\ isHost' = [isHost EXCEPT ![p] = FALSE]
    /\ joinLobby(call[p].row.id, p)
    /\ call' = [call EXCEPT
                  ![p].pc = "joined",
                  ![p].error = Errors(p, JoinError(call[p].row.id, p))]
    /\ playersCb' = playersCb
    /\ returned' = returned
    /\ UNCHANGED <<oppCb, received, game_lobbies, nextId, lobbyPlayers,
                   lobbySubscription, playersSubscription, gameChannels,
                   leave, refresh, lobbyEv, broadcastEv, gameStarts,
                   startWrites, lobbyCb, budget, redeliver>>

\* the same, the insert of joinLobby failing
JoinSelectedJoinFails(p) ==
    /\ call[p].pc = "selected"
    /\ call[p].ok
    /\ currentLobby' = [currentLobby EXCEPT ![p] = call[p].row]
    /\ isHost' = [isHost EXCEPT ![p] = FALSE]
    /\ call' = [call EXCEPT ![p].pc = "joined", ![p].error = "failed"]
    /\ playersCb' = playersCb
    /\ returned' = returned
    /\ UNCHANGED <<oppCb, received, game_lobbies, lobby_players, nextId,
                   lobbyPlayers, lobbySubscription, playersSubscription,
                   gameChannels, leave, refresh, lobbyEv, playersEv,
                   broadcastEv, gameStarts, startWrites, lobbyCb, budget,
                   redeliver>>

\* findOrCreateLobby, no lobby found: return createLobby(playerId, land)
FindNoneCreate(p) ==
    /\ call[p].pc = "selected"
    /\ call[p].op = "find"
    /\ ~ call[p].ok
    /\ \E r \in RandomFractions : InsertLobby(p, "find", generateLobbyCode(r))
    /\ playersCb' = playersCb
    /\ returned' = returned
    /\ UNCHANGED <<oppCb, received, lobby_players, currentLobby, lobbyPlayers,
                   lobbySubscription, playersSubscription, isHost,
                   gameChannels, leave, refresh, lobbyEv, playersEv,
                   broadcastEv, gameStarts, startWrites, lobbyCb, budget,
                   redeliver>>

\* joinByCode, no lobby found: return null
JoinNotFound(p) ==
    /\ call[p].pc = "selected"
    /\ call[p].op = "join"
    /\ ~ call[p].ok
    /\ call' = [call EXCEPT ![p] = NoCall]
    /\ playersCb' = playersCb
    /\ returned' = [returned EXCEPT ![p] =
                        ReturnsLobby("join", NoLobby, call[p].error)]
    /\ UNCHANGED <<oppCb, received, game_lobbies, lobby_players, nextId,
                   currentLobby, lobbyPlayers, lobbySubscription,
                   playersSubscription, isHost, gameChannels, leave, refresh,
                   lobbyEv, playersEv, broadcastEv, gameStarts, startWrites,
                   lobbyCb, budget, redeliver>>

\* a re-read that selects the ready rows only
ReReadReadyOnly(l, check) ==
    [lobby |-> l, data |-> { m \in MembersOf(l) : m.is_ready },
     check |-> check, error |-> FALSE]

\* a refreshPlayers(lobbyId) whose select has been executed: its answer
ReRead(l, check) ==
    [lobby |-> l, data |-> MembersOf(l), check |-> check, error |-> FALSE]

\* the same when the select fails: { data: null, error }
ReReadFails(l, check) ==
    [lobby |-> l, data |-> {}, check |-> check, error |-> TRUE]

\* after the await of joinLobby: subscribeToLobby(id) (unsubscribe, the two
\* channels, the initial refreshPlayers), onLobbyUpdate(currentLobby), return
Subscribed(p) ==
    /\ call[p].pc = "joined"
    /\ ReRead(call[p].row.id, FALSE) \notin refresh[p]
    /\ lobbySubscription' = [lobbySubscription EXCEPT ![p] = call[p].row.id]
    /\ playersSubscription' = [playersSubscription EXCEPT ![p] = call[p].row.id]
    /\ lobbyEv' = [lobbyEv EXCEPT ![p] = NoEvents]
    /\ playersEv' = [playersEv EXCEPT ![p] = 0]
    /\ refresh' = [refresh EXCEPT ![p] = @ \cup {ReRead(call[p].row.id, FALSE)}]
    /\ lobbyCb' = [lobbyCb EXCEPT ![p] = currentLobby[p]]
    /\ call' = [call EXCEPT ![p] = NoCall]
    /\ playersCb' = playersCb
    /\ returned' = [returned EXCEPT ![p] =
                        ReturnsLobby(call[p].op, call[p].row, call[p].error)]
    /\ UNCHANGED <<oppCb, received, game_lobbies, lobby_players, nextId,
                   currentLobby, lobbyPlayers, isHost, gameChannels, leave,
                   broadcastEv, gameStarts, startWrites, budget, redeliver>>

\* ----------------------------------------------------------- toggleReady
\* newReady = !currentPlayer?.is_ready, from the local snapshot
NewReady(p) ==
    ~ \E m \in lobbyPlayers[p] : m.player_id = p /\ m.is_ready

\* the whole call: the update is executed at the store, newReady is returned
ToggleReady(p) ==
    /\ currentLobby[p] # NoLobby
    /\ budget > 0
    /\ budget' = budget - 1
    /\ LET l == currentLobby[p].id
           old == { m \in lobby_players : m.lobby_id = l /\ m.player_id = p }
       IN IF old # {}
          THEN /\ lobby_players' =
                    (lobby_players \ old) \cup {Member(l, p, NewReady(p))}
               /\ playersEv' = PlayersNotify(playersEv, l, 1)
          ELSE UNCHANGED <<lobby_players, playersEv>>
    /\ playersCb' = playersCb
    /\ returned' = [returned EXCEPT ![p] =
                        ReturnsFlag("toggle", NewReady(p), "")]
    /\ UNCHANGED <<oppCb, received, game_lobbies, nextId, currentLobby,
                   lobbyPlayers, lobbySubscription, playersSubscription,
                   isHost, gameChannels, call, leave, refresh, lobbyEv,
                   broadcastEv, gameStarts, startWrites, lobbyCb, redeliver>>

\* toggleReady whose update fails: the result of the await is not looked at
ToggleReadyFails(p) ==
    /\ currentLobby[p] # NoLobby
    /\ budget > 0
    /\ budget' = budget - 1
    /\ playersCb' = playersCb
    /\ returned' = [returned EXCEPT ![p] =
                        ReturnsFlag("toggle", NewReady(p), "failed")]
    /\ UNCHANGED <<oppCb, received, game_lobbies, lobby_players, nextId,
                   currentLobby, lobbyPlayers, lobbySubscription,
                   playersSubscription, isHost, gameChannels, call, leave,
                   refresh, lobbyEv, playersEv, broadcastEv, gameStarts,
                   startWrites, lobbyCb, redeliver>>

\* a teardown that clears the context and leaves the change-feed
\* subscriptions open
LeaveCleanupKeepsSubscriptions(p) ==
    /\ UNCHANGED <<lobbySubscription, playersSubscription>>
    /\ currentLobby' = [currentLobby EXCEPT ![p] = NoLobby]
    /\ lobbyPlayers' = [lobbyPlayers EXCEPT ![p] = {}]
    /\ isHost' = [isHost EXCEPT ![p] = FALSE]
    /\ lobbyCb' = [lobbyCb EXCEPT ![p] = NoLobby]
    /\ leave' = [leave EXCEPT ![p] = "idle"]

\* ------------------------------------------------------------ leaveLobby
\* a leaveLobby that does not reset isHost
LeaveCleanupKeepsHost(p) ==
    /\ lobbySubscription' = [lobbySubscription EXCEPT ![p] = 0]
    /\ playersSubscription' = [playersSubscription EXCEPT ![p] = 0]
    /\ currentLobby' = [currentLobby EXCEPT ![p] = NoLobby]
    /\ lobbyPlayers' = [lobbyPlayers EXCEPT ![p] = {}]
    /\ isHost' = isHost
    /\ lobbyCb' = [lobbyCb EXCEPT ![p] = NoLobby]
    /\ leave' = [leave EXCEPT ![p] = "idle"]

\* unsubscribe(); currentLobby = null; lobbyPlayers = []; isHost = false;
\* onLobbyUpdate(null); onPlayersUpdate([])
LeaveCleanup(p) ==
    /\ lobbySubscription' = [lobbySubscription EXCEPT ![p] = 0]
    /\ playersSubscription' = [playersSubscription EXCEPT ![p] = 0]
    /\ currentLobby' = [currentLobby EXCEPT ![p] = NoLobby]
    /\ lobbyPlayers' = [lobbyPlayers EXCEPT ![p] = {}]
    /\ isHost' = [isHost EXCEPT ![p] = FALSE]
    /\ lobbyCb' = [lobbyCb EXCEPT ![p] = NoLobby]
    /\ leave' = [leave EXCEPT ![p] = "idle"]

\* a leaveLobby whose delete leaves out eq('player_id', playerId)
LeaveLobbyAnyPlayer(p) ==
    /\ currentLobby[p] # NoLobby
    /\ leave[p] = "idle"
    /\ budget > 0
    /\ budget' = budget - 1
    /\ LET l == currentLobby[p].id
           old == { m \in lobby_players : m.lobby_id = l }
       IN /\ lobby_players' = lobby_players \ old
          /\ playersEv' = PlayersNotify(playersEv, l, Cardinality(old))
    /\ leave' = [leave EXCEPT ![p] = "playerDeleted"]
    /\ playersCb' = playersCb
    /\ returned' = returned
    /\ UNCHANGED <<oppCb, received, game_lobbies, nextId, currentLobby,
                   lobbyPlayers, lobbySubscription, playersSubscription,
                   isHost, gameChannels, call, refresh, lobbyEv, broadcastEv,
                   gameStarts, startWrites, lobbyCb, redeliver>>

\* leaveLobby up to its first await: the delete of the own membership row
LeaveLobby(p) ==
    /\ currentLobby[p] # NoLobby
    /\ leave[p] = "idle"
    /\ budget > 0
    /\ budget' = budget - 1
    /\ LET l == currentLobby[p].id
           old == { m \in lobby_players : m.lobby_id = l /\ m.player_id = p }
       IN /\ lobby_players' = lobby_players \ old
          /\ playersEv' = PlayersNotify(playersEv, l, Cardinality(old))
    /\ leave' = [leave EXCEPT ![p] = "playerDeleted"]
    /\ playersCb' = playersCb
    /\ returned' = returned
    /\ UNCHANGED <<oppCb, received, game_lobbies, nextId, currentLobby,
                   lobbyPlayers, lobbySubscription, playersSubscription,
                   isHost, gameChannels, call, refresh, lobbyEv, broadcastEv,
                   gameStarts, startWrites, lobbyCb, redeliver>>

\* after the membership delete, host: the delete of the lobby row ("Hosts can
\* delete lobbies", ON DELETE CASCADE on lobby_players); a DELETE event
\* carries no new row
LeaveHostDelete(p) ==
    /\ leave[p] = "playerDeleted"
    /\ isHost[p]
    /\ LET l == currentLobby[p].id
           gone == { r \in game_lobbies : r.id = l /\ r.host_id = p }
           rows == IF gone = {} THEN {} ELSE MembersOf(l)
       IN /\ game_lobbies' = game_lobbies \ gone
          /\ lobby_players' = lobby_players \ rows
          /\ \E new \in DeletedNew :
                lobbyEv' = IF gone = {} THEN lobbyEv
                           ELSE LobbyNotify(lobbyEv, l, new)
          /\ playersEv' = PlayersNotify(playersEv, l, Cardinality(rows))
    /\ leave' = [leave EXCEPT ![p] = IF currentLobby[p] = NoLobby
                                     THEN "idle" ELSE "lobbyDeleted"]
    /\ playersCb' = playersCb
    /\ returned' = returned
    /\ UNCHANGED <<oppCb, received, nextId, currentLobby, lobbyPlayers,
                   lobbySubscription, playersSubscription, isHost,
                   gameChannels, call, refresh, broadcastEv, gameStarts,
                   startWrites, lobbyCb, budget, redeliver>>

\* leaveLobby whose membership delete fails
LeaveLobbyFails(p) ==
    /\ currentLobby[p] # NoLobby
    /\ leave[p] = "idle"
    /\ budget > 0
    /\ budget' = budget - 1
    /\ leave' = [leave EXCEPT ![p] = "playerDeleted"]
    /\ playersCb' = playersCb
    /\ returned' = returned
    /\ UNCHANGED <<oppCb, received, game_lobbies, lobby_players, nextId,
                   currentLobby, lobbyPlayers, lobbySubscription,
                   playersSubscription, isHost, gameChannels, call, refresh,
                   lobbyEv, playersEv, broadcastEv, gameStarts, startWrites,
                   lobbyCb, redeliver>>

\* leaveLobby on the host, the delete of the lobby row failing
LeaveHostDeleteFails(p) ==
    /\ leave[p] = "playerDeleted"
    /\ isHost[p]
    /\ leave' = [leave EXCEPT ![p] = IF currentLobby[p] = NoLobby
                                     THEN "idle" ELSE "lobbyDeleted"]
    /\ playersCb' = playersCb
    /\ returned' = returned
    /\ UNCHANGED <<oppCb, received, game_lobbies, lobby_players, nextId,
                   currentLobby, lobbyPlayers, lobbySubscription,
                   playersSubscription, isHost, gameChannels, call, refresh,
                   lobbyEv, playersEv, broadcastEv, gameStarts, startWrites,
                   lobbyCb, budget, redeliver>>

\* after the membership delete, not host: no further await
LeaveGuestDone(p) ==
    /\ leave[p] = "playerDeleted"
    /\ ~ isHost[p]
    /\ LeaveCleanup(p)
    /\ lobbyEv' = [lobbyEv EXCEPT ![p] = NoEvents]
    /\ playersEv' = [playersEv EXCEPT ![p] = 0]
    /\ playersCb' = [playersCb EXCEPT ![p] = OnPlayersUpdate({})]
    /\ returned' = returned
    /\ UNCHANGED <<oppCb, received, game_lobbies, lobby_players, nextId,
                   gameChannels, call, refresh, broadcastEv, gameStarts,
                   startWrites, budget, redeliver>>

\* after the lobby delete
LeaveHostDone(p) ==
    /\ leave[p] = "lobbyDeleted"
    /\ LeaveCleanup(p)
    /\ lobbyEv' = [lobbyEv EXCEPT ![p] = NoEvents]
    /\ playersEv' = [playersEv EXCEPT ![p] = 0]
    /\ playersCb' = [playersCb EXCEPT ![p] = OnPlayersUpdate({})]
    /\ returned' = returned
    /\ UNCHANGED <<oppCb, received, game_lobbies, lobby_players, nextId,
                   gameChannels, call, refresh, broadcastEv, gameStarts,
                   startWrites, budget, redeliver>>

\* ----------------------------------------------------- change-feed handlers
\* a game_lobbies handler that drops the rows whose status is 'abandoned'
LobbyHandlerDropsAbandoned(p, e) ==
    /\ IF e # NoLobby /\ e.status # "abandoned"
       THEN /\ currentLobby' = [currentLobby EXCEPT ![p] = e]
            /\ lobbyCb' = [lobbyCb EXCEPT ![p] = e]
            /\ gameStarts' = [gameStarts EXCEPT ![p] =
                                IF e.status = "playing" THEN @ + 1 ELSE @]
       ELSE UNCHANGED <<currentLobby, lobbyCb, gameStarts>>

\* the game_lobbies handler of subscribeToLobby, on payload.new = e
LobbyHandler(p, e) ==
    /\ IF e # NoLobby
       THEN /\ currentLobby' = [currentLobby EXCEPT ![p] = e]
            /\ lobbyCb' = [lobbyCb EXCEPT ![p] = e]
            /\ gameStarts' = [gameStarts EXCEPT ![p] =
                                IF e.status = "playing" THEN @ + 1 ELSE @]
       ELSE UNCHANGED <<currentLobby, lobbyCb, gameStarts>>

LobbyEvent(p) ==
    /\ lobbySubscription[p] # 0
    /\ \E e \in DOMAIN lobbyEv[p] :
         /\ LobbyHandler(p, e)
         /\ lobbyEv' = [lobbyEv EXCEPT ![p] = BagRemove(@, e)]
    /\ playersCb' = playersCb
    /\ returned' = returned
    /\ UNCHANGED <<oppCb, received, game_lobbies, lobby_players, nextId,
                   lobbyPlayers, lobbySubscription, playersSubscription,
                   isHost, gameChannels, call, leave, refresh, playersEv,
                   broadcastEv, startWrites, budget, redeliver>>

\* at-least-once delivery: the event stays in flight and comes again
LobbyEventAgain(p) ==
    /\ lobbySubscription[p] # 0
    /\ redeliver > 0
    /\ redeliver' = redeliver - 1
    /\ \E e \in DOMAIN lobbyEv[p] : LobbyHandler(p, e)
    /\ playersCb' = playersCb
    /\ returned' = returned
    /\ UNCHANGED <<oppCb, received, game_lobbies, lobby_players, nextId,
                   lobbyPlayers, lobbySubscription, playersSubscription,
                   isHost, gameChannels, call, leave, refresh, lobbyEv,
                   playersEv, broadcastEv, startWrites, budget>>

\* the lobby_players handler up to its await: refreshPlayers(lobbyId) issues
\* the select for the lobby id the channel was opened with
PlayersHandler(p) ==
    /\ ReRead(playersSubscription[p], TRUE) \notin refresh[p]
    /\ refresh' = [refresh EXCEPT ![p] =
                      @ \cup {ReRead(playersSubscription[p], TRUE)}]

PlayersEvent(p) ==
    /\ playersSubscription[p] # 0
    /\ playersEv[p] > 0
    /\ PlayersHandler(p)
    /\ playersEv' = [playersEv EXCEPT ![p] = @ - 1]
    /\ playersCb' = playersCb
    /\ returned' = returned
    /\ UNCHANGED <<oppCb, received, game_lobbies, lobby_players, nextId,
                   currentLobby, lobbyPlayers, lobbySubscription,
                   playersSubscription, isHost, gameChannels, call, leave,
                   lobbyEv, broadcastEv, gameStarts, startWrites, lobbyCb,
                   budget, redeliver>>

\* the same handler when the select of refreshPlayers fails
PlayersEventFails(p) ==
    /\ playersSubscription[p] # 0
    /\ playersEv[p] > 0
    /\ ReReadFails(playersSubscription[p], TRUE) \notin refresh[p]
    /\ refresh' = [refresh EXCEPT ![p] =
                      @ \cup {ReReadFails(playersSubscription[p], TRUE)}]
    /\ playersEv' = [playersEv EXCEPT ![p] = @ - 1]
    /\ playersCb' = playersCb
    /\ returned' = returned
    /\ UNCHANGED <<oppCb, received, game_lobbies, lobby_players, nextId,
                   currentLobby, lobbyPlayers, lobbySubscription,
                   playersSubscription, isHost, gameChannels, call, leave,
                   lobbyEv, broadcastEv, gameStarts, startWrites, lobbyCb,
                   budget, redeliver>>

PlayersEventAgain(p) ==
    /\ playersSubscription[p] # 0
    /\ playersEv[p] > 0
    /\ redeliver > 0
    /\ redeliver' = redeliver - 1
    /\ PlayersHandler(p)
    /\ playersCb' = playersCb
    /\ returned' = returned
    /\ UNCHANGED <<oppCb, received, game_lobbies, lobby_players, nextId,
                   currentLobby, lobbyPlayers, lobbySubscription,
                   playersSubscription, isHost, gameChannels, call, leave,
                   lobbyEv, playersEv, broadcastEv, gameStarts, startWrites,
                   lobbyCb, budget>>

\* --------------------------------------------------------- checkAllReady
\* checkAllReady with the size test lost: a lone ready host starts the match
AllReadyLone(host, players) ==
    /\ host
    /\ \A m \in players : m.is_ready

\* if (!isHost || lobbyPlayers.length < 2) return; allReady = every(is_ready)
AllReady(host, players) ==
    /\ host
    /\ Cardinality(players) >= 2
    /\ \A m \in players : m.is_ready

\* whether checkAllReady on process p, snapshot `players`, issues the update
\* (currentLobby.id of a null currentLobby throws before the call is made)
IssuesStart(p, players) ==
    AllReady(isHost[p], players) /\ currentLobby[p] # NoLobby

\* an update by the host that flips the status: 'playing' on a waiting lobby,
\* 'waiting' on a playing one
StartUpdateFlips(p, l) ==
    LET old == { r \in game_lobbies : r.id = l /\ r.host_id = p }
        new == { [r EXCEPT !.status = IF @ = "waiting" THEN "playing"
                                      ELSE "waiting"] : r \in old }
    IN /\ game_lobbies' = (game_lobbies \ old) \cup new
       /\ lobbyEv' = IF new = {} THEN lobbyEv
                     ELSE LobbyNotify(lobbyEv, l, CHOOSE r \in new : TRUE)

\* update({status: 'playing'}).eq('id', l) by p, executed at the store under
\* "Hosts can update lobbies": USING (auth.uid() = host_id)
StartUpdate(p, l) ==
    LET old == { r \in game_lobbies : r.id = l /\ r.host_id = p }
        new == { [r EXCEPT !.status = "playing"] : r \in old }
    IN /\ game_lobbies' = (game_lobbies \ old) \cup new
       /\ lobbyEv' = IF new = {} THEN lobbyEv
                     ELSE LobbyNotify(lobbyEv, l, CHOOSE r \in new : TRUE)

\* checkAllReady with a local fast path: the host that issues the update calls
\* onGameStart itself
checkAllReadyFastPath(p, players) ==
    /\ IF IssuesStart(p, players)
       THEN /\ StartUpdate(p, currentLobby[p].id)
            /\ startWrites' = [startWrites EXCEPT ![currentLobby[p].id] = @ + 1]
            /\ gameStarts' = [gameStarts EXCEPT ![p] = @ + 1]
       ELSE UNCHANGED <<game_lobbies, lobbyEv, startWrites, gameStarts>>

checkAllReady(p, players) ==
    /\ IF IssuesStart(p, players)
       THEN /\ StartUpdate(p, currentLobby[p].id)
            /\ startWrites' = [startWrites EXCEPT ![currentLobby[p].id] = @ + 1]
       ELSE UNCHANGED <<game_lobbies, lobbyEv, startWrites>>
    /\ gameStarts' = gameStarts

\* a refreshPlayers that does not test the error of its select
refreshPlayersIgnoresError(p, t) ==
    /\ lobbyPlayers' = [lobbyPlayers EXCEPT ![p] = t.data]
    /\ playersCb' = [playersCb EXCEPT ![p] = OnPlayersUpdate(t.data)]

\* refreshPlayers after its await:
\* if (!error && data) { lobbyPlayers = data; onPlayersUpdate(lobbyPlayers) }
refreshPlayers(p, t) ==
    IF t.error
    THEN /\ lobbyPlayers' = lobbyPlayers
         /\ playersCb' = [playersCb EXCEPT ![p].skipped = TRUE]
    ELSE /\ lobbyPlayers' = [lobbyPlayers EXCEPT ![p] = t.data]
         /\ playersCb' = [playersCb EXCEPT ![p] = OnPlayersUpdate(t.data)]

\* the resumption of refreshPlayers and, in the lobby_players handler, the
\* checkAllReady() that follows it
RefreshDone(p) ==
    \E t \in refresh[p] :
        /\ refresh' = [refresh EXCEPT ![p] = @ \ {t}]
        /\ refreshPlayers(p, t)
        /\ IF t.check
           THEN checkAllReady(p, IF t.error THEN lobbyPlayers[p] ELSE t.data)
           ELSE UNCHANGED <<game_lobbies, lobbyEv, startWrites, gameStarts>>
        /\ returned' = returned
        /\ UNCHANGED <<oppCb, received, lobby_players, nextId, currentLobby,
                       lobbySubscription, playersSubscription, isHost,
                       gameChannels, call, leave, playersEv, broadcastEv,
                       lobbyCb, budget, redeliver>>

\* ------------------------------------------------------ external cleanup
\* cleanup_old_lobbies(), its update: a playing lobby becomes 'abandoned'
\* (the age of the lobby is not modelled: any playing lobby may be old
\* enough); the change feed delivers the new row
cleanup_old_lobbies(l) ==
    /\ LobbyRow(l) # NoLobby
    /\ LobbyRow(l).status = "playing"
    /\ LET new == [LobbyRow(l) EXCEPT !.status = "abandoned"]
       IN /\ game_lobbies' = (game_lobbies \ {LobbyRow(l)}) \cup {new}
          /\ lobbyEv' = LobbyNotify(lobbyEv, l, new)
    /\ UNCHANGED <<lobby_players, nextId, currentLobby, lobbyPlayers,
                   lobbySubscription, playersSubscription, isHost,
                   gameChannels, call, leave, refresh, playersEv,
                   broadcastEv, gameStarts, startWrites, lobbyCb, oppCb,
                   received, playersCb, returned, budget, redeliver>>

\* ------------------------------------------------------ broadcast channel
\* listenForOpponentState(playerId): one more handler on game:<currentLobby.id>
ListenForOpponentState(p) ==
    /\ currentLobby[p] # NoLobby
    /\ budget > 0
    /\ budget' = budget - 1
    /\ gameChannels' = [gameChannels EXCEPT ![p] =
                           BagAdd(@, currentLobby[p].id)]
    /\ playersCb' = playersCb
    /\ returned' = returned
    /\ UNCHANGED <<oppCb, received, game_lobbies, lobby_players, nextId,
                   currentLobby, lobbyPlayers, lobbySubscription,
                   playersSubscription, isHost, call, leave, refresh, lobbyEv,
                   playersEv, broadcastEv, gameStarts, startWrites, lobbyCb,
                   redeliver>>

\* broadcastGameState(state): send on game:<currentLobby.id>, fire and forget
BroadcastGameState(p) ==
    /\ currentLobby[p] # NoLobby
    /\ budget > 0
    /\ budget' = budget - 1
    /\ Cardinality(broadcastEv) < MaxBroadcast
    /\ \E state \in GameStates :
         broadcastEv' = broadcastEv \cup
             { [to |-> q, lobby |-> currentLobby[p].id, payload |-> state] :
                 q \in { r \in Procs :
                            currentLobby[p].id \in DOMAIN gameChannels[r] } }
    /\ playersCb' = playersCb
    /\ returned' = returned
    /\ UNCHANGED <<oppCb, received, game_lobbies, lobby_players, nextId,
                   currentLobby, lobbyPlayers, lobbySubscription,
                   playersSubscription, isHost, gameChannels, call, leave,
                   refresh, lobbyEv, playersEv, gameStarts, startWrites,
                   lobbyCb, redeliver>>

\* the listener without its filter
ForwardsEverything(playerId, payload) == TRUE

\* the listener's filter: payload.payload.playerId !== playerId
ForwardsToOpponentScore(playerId, payload) == payload.playerId # playerId

\* `n` invocations of onOpponentScore(payload)
Forwarded(cb, payload, n) ==
    IF n = 0 THEN cb
    ELSE IF payload \in DOMAIN cb THEN [cb EXCEPT ![payload] = @ + n]
    ELSE [x \in DOMAIN cb \cup {payload} |-> IF x = payload THEN n ELSE cb[x]]

\* a message reaches a process: each handler it registered on the topic runs
BroadcastDeliver(p) ==
    /\ \E m \in broadcastEv :
         /\ m.to = p
         /\ broadcastEv' = broadcastEv \ {m}
         /\ oppCb' = [oppCb EXCEPT ![p] =
                        IF m.lobby \in DOMAIN gameChannels[p]
                           /\ ForwardsToOpponentScore(p, m.payload)
                        THEN Forwarded(@, m.payload, gameChannels[p][m.lobby])
                        ELSE @]
         /\ received' = [received EXCEPT ![p] =
                           IF m.lobby \in DOMAIN gameChannels[p]
                           THEN @ \cup {m.payload} ELSE @]
    /\ playersCb' = playersCb
    /\ returned' = returned
    /\ UNCHANGED <<game_lobbies, lobby_players, nextId, currentLobby,
                   lobbyPlayers, lobbySubscription, playersSubscription,
                   isHost, gameChannels, call, leave, refresh, lobbyEv,
                   playersEv, gameStarts, startWrites, lobbyCb, budget,
                   redeliver>>

\* no delivery guarantee: a message leaves the channel
BroadcastLost ==
    /\ \E m \in broadcastEv : broadcastEv' = broadcastEv \ {m}
    /\ playersCb' = playersCb
    /\ returned' = returned
    /\ UNCHANGED <<oppCb, received, game_lobbies, lobby_players, nextId,
                   currentLobby, lobbyPlayers, lobbySubscription,
                   playersSubscription, isHost, gameChannels, call, leave,
                   refresh, lobbyEv, playersEv, gameStarts, startWrites,
                   lobbyCb, budget, redeliver>>

\* ------------------------------------------------------------ the system
Creating(p) ==
    \/ CreateLobby(p)
    \/ CreateLobbyInserted(p)
    \/ FindOrCreateLobby(p)
    \/ FindNoneCreate(p)

Joining(p) ==
    \/ \E input \in CodeInputs : JoinByCode(p, input)
    \/ JoinSelected(p)
    \/ JoinNotFound(p)
    \/ Subscribed(p)

Leaving(p) ==
    \/ LeaveLobby(p)
    \/ LeaveHostDelete(p)
    \/ LeaveGuestDone(p)
    \/ LeaveHostDone(p)

Lifecycle(p) ==
    \/ Creating(p)
    \/ Joining(p)
    \/ Leaving(p)
    \/ ToggleReady(p)

ChangeFeed(p) ==
    \/ LobbyEvent(p)
    \/ PlayersEvent(p)
    \/ RefreshDone(p)

Redelivery(p) ==
    \/ LobbyEventAgain(p)
    \/ PlayersEventAgain(p)

Broadcast(p) ==
    \/ ListenForOpponentState(p)
    \/ BroadcastGameState(p)
    \/ BroadcastDeliver(p)

\* store calls of the lifecycle operations that fail
CallFaults(p) ==
    \/ CreateLobbyFails(p)
    \/ FindOrCreateLobbyFails(p)
    \/ JoinByCodeFails(p)
    \/ CreateLobbyInsertedJoinFails(p)
    \/ JoinSelectedJoinFails(p)
    \/ ToggleReadyFails(p)

\* store calls of leaveLobby and of the membership re-read that fail
LeaveFaults(p) ==
    \/ LeaveLobbyFails(p)
    \/ LeaveHostDeleteFails(p)
    \/ PlayersEventFails(p)

\* The service from its construction on every process.
Next ==
    \/ \E p \in Procs : Lifecycle(p)
    \/ \E p \in Procs : ChangeFeed(p)

Spec == Init /\ [][Next]_vars

\* ------------------------------------------------------ a lobby of two
\* The state createLobby on A and findOrCreateLobby on B lead to once every
\* event is handled: A hosts lobby 1, B is its guest, the ready flags are any
\* but both true (the host would have started the match).
InitLobby ==
    \E ra, rb \in BOOLEAN :
       LET row == [id |-> 1, code |-> generateLobbyCode(<<"i">>),
                   host_id |-> "A", status |-> "waiting"]
           rows == {Member(1, "A", ra), Member(1, "B", rb)}
           last(p, r) == IF r THEN ReturnsFlag("toggle", TRUE, "")
                         ELSE ReturnsLobby(IF p = "A" THEN "create" ELSE "find",
                                           row, "")
       IN /\ ~ (ra /\ rb)
          /\ game_lobbies = {row}
          /\ lobby_players = rows
          /\ nextId = 2
          /\ currentLobby = [p \in Procs |-> row]
          /\ lobbyPlayers = [p \in Procs |-> rows]
          /\ lobbySubscription = [p \in Procs |-> 1]
          /\ playersSubscription = [p \in Procs |-> 1]
          /\ isHost = [p \in Procs |-> p = "A"]
          /\ gameChannels = [p \in Procs |-> NoEvents]
          /\ call = [p \in Procs |-> NoCall]
          /\ leave = [p \in Procs |-> "idle"]
          /\ refresh = [p \in Procs |-> {}]
          /\ lobbyEv = [p \in Procs |-> NoEvents]
          /\ playersEv = [p \in Procs |-> 0]
          /\ broadcastEv = {}
          /\ gameStarts = [p \in Procs |-> 0]
          /\ startWrites = [l \in 0..MaxLobbies |-> 0]
          /\ lobbyCb = [p \in Procs |-> row]
          /\ oppCb = [p \in Procs |-> NoEvents]
          /\ received = [p \in Procs |-> {}]
          /\ playersCb = [p \in Procs |-> OnPlayersUpdate(rows)]
          /\ returned = [p \in Procs |-> last(p, IF p = "A" THEN ra ELSE rb)]
          /\ budget = MaxLobbyCalls
          /\ redeliver = MaxRedeliver

NextLobby ==
    \/ \E p \in Procs : Lifecycle(p)
    \/ \E p \in Procs : ChangeFeed(p)

SpecLobby == InitLobby /\ [][NextLobby]_vars

\* leave and ready toggles in the lobby
NextReady ==
    \/ \E p \in Procs : ToggleReady(p)
    \/ \E p \in Procs : Leaving(p)
    \/ \E p \in Procs : ChangeFeed(p)

SpecReady == InitLobby /\ [][NextReady]_vars

\* the same with the external cleanup of old lobbies running at any time
NextCleanup ==
    \/ \E p \in Procs : ToggleReady(p)
    \/ \E p \in Procs : Leaving(p)
    \/ \E p \in Procs : ChangeFeed(p)
    \/ \E l \in LobbyIds : cleanup_old_lobbies(l)

SpecCleanup == InitLobby /\ [][NextCleanup]_vars

\* the same under at-least-once delivery of the change feed
NextRedeliver ==
    \/ \E p \in Procs : ToggleReady(p)
    \/ \E p \in Procs : Leaving(p)
    \/ \E p \in Procs : ChangeFeed(p)
    \/ \E p \in Procs : Redelivery(p)

SpecRedeliver == InitLobby /\ [][NextRedeliver]_vars

\* the broadcast channel of the lobby
NextBroadcast ==
    \/ \E p \in Procs : Broadcast(p)
    \/ \E p \in Procs : Leaving(p)
    \/ \E p \in Procs : ChangeFeed(p)
    \/ BroadcastLost

SpecBroadcast == InitLobby /\ [][NextBroadcast]_vars

\* the broadcast channel alone, in the lobby of two just after both joined:
\* room for a second listenForOpponentState before a message is sent
InitListen ==
    LET row == [id |-> 1, code |-> generateLobbyCode(<<"i">>),
                host_id |-> "A", status |-> "waiting"]
        rows == {Member(1, "A", FALSE), Member(1, "B", FALSE)}
    IN /\ game_lobbies = {row}
       /\ lobby_players = rows
       /\ nextId = 2
       /\ currentLobby = [p \in Procs |-> row]
       /\ lobbyPlayers = [p \in Procs |-> rows]
       /\ lobbySubscription = [p \in Procs |-> 1]
       /\ playersSubscription = [p \in Procs |-> 1]
       /\ isHost = [p \in Procs |-> p = "A"]
       /\ gameChannels = [p \in Procs |-> NoEvents]
       /\ call = [p \in Procs |-> NoCall]
       /\ leave = [p \in Procs |-> "idle"]
       /\ refresh = [p \in Procs |-> {}]
       /\ lobbyEv = [p \in Procs |-> NoEvents]
       /\ playersEv = [p \in Procs |-> 0]
       /\ broadcastEv = {}
       /\ gameStarts = [p \in Procs |-> 0]
       /\ startWrites = [l \in 0..MaxLobbies |-> 0]
       /\ lobbyCb = [p \in Procs |-> row]
       /\ oppCb = [p \in Procs |-> NoEvents]
       /\ received = [p \in Procs |-> {}]
       /\ playersCb = [p \in Procs |-> OnPlayersUpdate(rows)]
       /\ returned = [p \in Procs |->
                        ReturnsLobby(IF p = "A" THEN "create" ELSE "find",
                                     row, "")]
       /\ budget = MaxListenCalls
       /\ redeliver = 0

NextListen ==
    \/ \E p \in Procs : Broadcast(p)
    \/ BroadcastLost

SpecListen == InitListen /\ [][NextListen]_vars

\* leaving the lobby, every store call of it and every re-read free to fail
NextLeaveFaults ==
    \/ \E p \in Procs : Leaving(p)
    \/ \E p \in Procs : LeaveFaults(p)
    \/ \E p \in Procs : ChangeFeed(p)

SpecLeaveFaults == InitLobby /\ [][NextLeaveFaults]_vars

\* the service from its construction, the store calls of createLobby,
\* findOrCreateLobby, joinByCode and toggleReady free to fail
InitFaults ==
    /\ game_lobbies = {}
    /\ lobby_players = {}
    /\ nextId = 1
    /\ currentLobby = [p \in Procs |-> NoLobby]
    /\ lobbyPlayers = [p \in Procs |-> {}]
    /\ lobbySubscription = [p \in Procs |-> 0]
    /\ playersSubscription = [p \in Procs |-> 0]
    /\ isHost = [p \in Procs |-> FALSE]
    /\ gameChannels = [p \in Procs |-> NoEvents]
    /\ call = [p \in Procs |-> NoCall]
    /\ leave = [p \in Procs |-> "idle"]
    /\ refresh = [p \in Procs |-> {}]
    /\ lobbyEv = [p \in Procs |-> NoEvents]
    /\ playersEv = [p \in Procs |-> 0]
    /\ broadcastEv = {}
    /\ gameStarts = [p \in Procs |-> 0]
    /\ startWrites = [l \in 0..MaxLobbies |-> 0]
    /\ lobbyCb = [p \in Procs |-> NoLobby]
    /\ oppCb = [p \in Procs |-> NoEvents]
    /\ received = [p \in Procs |-> {}]
    /\ playersCb = [p \in Procs |-> NoPlayersCb]
    /\ returned = [p \in Procs |-> NoReturn]
    /\ budget = MaxFaultCalls
    /\ redeliver = 0

\* no process leaves and no match starts within MaxFaultCalls calls, so the
\* game_lobbies handler has no event to handle
NextFaults ==
    \/ \E p \in Procs : Creating(p)
    \/ \E p \in Procs : Joining(p)
    \/ \E p \in Procs : ToggleReady(p)
    \/ \E p \in Procs : CallFaults(p)
    \/ \E p \in Procs : PlayersEvent(p)
    \/ \E p \in Procs : RefreshDone(p)

SpecFaults == InitFaults /\ [][NextFaults]_vars

\* ------------------------------------------------- a match from nothing
\* A calls findOrCreateLobby with no lobby in the store; B calls it once A's
\* call has returned; each sets itself ready once, after its own call has
\* returned.  Every continuation and every change-feed delivery is fair.
InitE2E ==
    /\ game_lobbies = {}
    /\ lobby_players = {}
    /\ nextId = 1
    /\ currentLobby = [p \in Procs |-> NoLobby]
    /\ lobbyPlayers = [p \in Procs |-> {}]
    /\ lobbySubscription = [p \in Procs |-> 0]
    /\ playersSubscription = [p \in Procs |-> 0]
    /\ isHost = [p \in Procs |-> FALSE]
    /\ gameChannels = [p \in Procs |-> NoEvents]
    /\ call = [p \in Procs |-> NoCall]
    /\ leave = [p \in Procs |-> "idle"]
    /\ refresh = [p \in Procs |-> {}]
    /\ lobbyEv = [p \in Procs |-> NoEvents]
    /\ playersEv = [p \in Procs |-> 0]
    /\ broadcastEv = {}
    /\ gameStarts = [p \in Procs |-> 0]
    /\ startWrites = [l \in 0..MaxLobbies |-> 0]
    /\ lobbyCb = [p \in Procs |-> NoLobby]
    /\ oppCb = [p \in Procs |-> NoEvents]
    /\ received = [p \in Procs |-> {}]
    /\ playersCb = [p \in Procs |-> NoPlayersCb]
    /\ returned = [p \in Procs |-> NoReturn]
    /\ budget = MaxMatchCalls
    /\ redeliver = 0

HostFinds ==
    /\ game_lobbies = {}
    /\ FindOrCreateLobby("A")

GuestFinds ==
    /\ call["A"] = NoCall
    /\ currentLobby["A"] # NoLobby
    /\ currentLobby["B"] = NoLobby
    /\ FindOrCreateLobby("B")

SetsReady(p) ==
    /\ call[p] = NoCall
    /\ currentLobby[p] # NoLobby
    /\ Member(currentLobby[p].id, p, FALSE) \in lobby_players
    /\ ToggleReady(p)

NextE2E ==
    \/ HostFinds
    \/ GuestFinds
    \/ \E p \in Procs : SetsReady(p)
    \/ \E p \in Procs : FindNoneCreate(p)
    \/ \E p \in Procs : CreateLobbyInserted(p)
    \/ \E p \in Procs : JoinSelected(p)
    \/ \E p \in Procs : Subscribed(p)
    \/ \E p \in Procs : ChangeFeed(p)

FairE2E ==
    /\ WF_vars(HostFinds)
    /\ WF_vars(GuestFinds)
    /\ \A p \in Procs :
          /\ WF_vars(SetsReady(p))
          /\ WF_vars(FindNoneCreate(p))
          /\ WF_vars(CreateLobbyInserted(p))
          /\ WF_vars(JoinSelected(p))
          /\ WF_vars(Subscribed(p))
          /\ WF_vars(LobbyEvent(p))
          /\ WF_vars(PlayersEvent(p))
          /\ WF_vars(RefreshDone(p))

SpecE2E == InitE2E /\ [][NextE2E]_vars /\ FairE2E

\* the lobby of two with ready toggles, createLobby and joinByCode, every
\* change-feed event delivered and every suspended call and re-read resumed
\* (the application layer is free to make no call)
NextRejoin ==
    \/ \E p \in Procs : ToggleReady(p)
    \/ \E p \in Procs : CreateLobby(p)
    \/ \E p \in Procs : CreateLobbyInserted(p)
    \/ \E p \in Procs : Joining(p)
    \/ \E p \in Procs : ChangeFeed(p)

FairDelivery ==
    \A p \in Procs :
       /\ WF_vars(LobbyEvent(p))
       /\ WF_vars(PlayersEvent(p))
       /\ WF_vars(RefreshDone(p))
       /\ WF_vars(CreateLobbyInserted(p))
       /\ WF_vars(JoinSelected(p))
       /\ WF_vars(JoinNotFound(p))
       /\ WF_vars(Subscribed(p))

SpecRejoin == InitLobby /\ [][NextRejoin]_vars /\ FairDelivery

\* ================================================================ claims
\* a step in which the lobby_players handler of p resumed after its re-read
\* t and ran checkAllReady
ChecksAllReady(p, t) ==
    /\ t \in refresh[p]
    /\ t.check
    /\ refresh'[p] = refresh[p] \ {t}

\* a step in which some process issued update({status: 'playing'})
IssuesStartWrite == startWrites' # startWrites

\* a step in which update({status: 'playing'}) was issued for lobby l
IssuesStartWriteFor(l) == startWrites'[l] # startWrites[l]

\* C1: a consensus check on a process issues the start update if and only
\* if, at that check, the process is host, its membership snapshot has at
\* least 2 members and every member of the snapshot is ready.
C1_CheckIssuesIffAllReady ==
    [][\A p \in Procs : \A t \in refresh[p] :
          ChecksAllReady(p, t) =>
             (IssuesStartWrite <=>
                /\ isHost'[p]
                /\ Cardinality(lobbyPlayers'[p]) >= 2
                /\ \A m \in lobbyPlayers'[p] : m.is_ready)]_vars

\* a start update has been issued for the lobby of two
C1_Witness == startWrites[1] > 0 /\ Cardinality(lobbyPlayers["A"]) = 2

\* C2 (as claimed): whenever the host issues the start update, every
\* membership row of that lobby in the store has is_ready = true.
C2_StartOnlyWhenStoreAllReady ==
    [][\A l \in LobbyIds :
          IssuesStartWriteFor(l) =>
             \A m \in lobby_players : m.lobby_id = l => m.is_ready]_vars

\* C3 (as claimed): onGameStart is emitted at most once per match on every
\* subscribed process, also when a lobby event is delivered again or a
\* further lobby-row event still has status 'playing'.
C3_GameStartAtMostOnce == \A p \in Procs : gameStarts[p] <= 1

\* C4 (as claimed): once the lobby status is 'playing' the host never issues
\* the start update again, so at most one start write is issued per lobby.
C4_NoStartWriteOncePlaying ==
    [][\A l \in LobbyIds :
          /\ LobbyRow(l).status = "playing" => startWrites'[l] = startWrites[l]
          /\ startWrites'[l] <= 1]_vars

\* both processes are in the lobby A created, B as its guest
MatchMade ==
    /\ currentLobby["A"].host_id = "A" /\ isHost["A"]
    /\ currentLobby["B"].id = currentLobby["A"].id /\ ~ isHost["B"]

\* the host's start update is eventually issued and each of A and B is
\* eventually told at least once that the match started
C5_MatchEventuallyStarts ==
    <>(MatchMade /\ startWrites[1] > 0 /\ \A p \in Procs : gameStarts[p] >= 1)

\* C5 (as claimed): from no waiting lobby, A's findOrCreateLobby makes it the
\* host of a new lobby, B's joins it as non-host, and after both set ready,
\* under fair delivery, the host issues the start update and eventually A and
\* B have received exactly one onGameStart each.
C5_ExactlyOneGameStartEach ==
    <>[](MatchMade /\ startWrites[1] > 0 /\ \A p \in Procs : gameStarts[p] = 1)

\* a step in which the game_lobbies handler of p ran on a DELETE event
HandlesLobbyDelete(p) ==
    /\ lobbySubscription[p] # 0
    /\ lobbySubscription'[p] = lobbySubscription[p]
    /\ \E new \in DeletedNew \cap DOMAIN lobbyEv[p] :
          lobbyEv'[p] = BagRemove(lobbyEv[p], new)

\* C6 (as claimed): the guest that receives the deletion of its lobby through
\* the lobby change feed has its current lobby cleared and onLobbyUpdate
\* invoked with null.
C6_GuestSeesLobbyEnded ==
    [][\A p \in Procs :
          (~ isHost[p] /\ HandlesLobbyDelete(p)) =>
             (currentLobby'[p] = NoLobby /\ lobbyCb'[p] = NoLobby)]_vars

\* a step in which leaveLobby of p ran to its end
LeaveCompletes(p) == leave[p] # "idle" /\ leave'[p] = "idle"

\* C7 (as claimed): after leaveLobby completes the local session context is
\* empty and the change-feed subscriptions and the broadcast subscription
\* are released.
C7_LeaveReleasesEverything ==
    [][\A p \in Procs :
          LeaveCompletes(p) =>
             /\ currentLobby'[p] = NoLobby
             /\ lobbyPlayers'[p] = {}
             /\ ~ isHost'[p]
             /\ lobbySubscription'[p] = 0
             /\ playersSubscription'[p] = 0
             /\ gameChannels'[p] = NoEvents]_vars

\* C8: a broadcast message whose participant id equals the listener's own id
\* is never handed to onOpponentScore, whatever the rest of the payload.
C8_SelfEchoSuppressed ==
    \A p \in Procs : \A payload \in received[p] :
        payload.playerId = p => payload \notin DOMAIN oppCb[p]

\* a registered listener has received a message carrying its own id
C8_Witness ==
    \E p \in Procs : \E payload \in received[p] : payload.playerId = p

\* C9 (as claimed): a process that is not the host of its current lobby never
\* issues the start update.
C9_OnlyHostIssuesStart ==
    [][\A p \in Procs : \A t \in refresh[p] :
          (ChecksAllReady(p, t) /\ \E l \in LobbyIds : IssuesStartWriteFor(l))
             => currentLobby[p].host_id = p]_vars

\* C10: onGameStart is invoked only by the game_lobbies handler on an event
\* whose new row has status 'playing', never by checkAllReady or by a
\* lifecycle call.
C10_GameStartOnlyFromLobbyEvent ==
    [][\A p \in Procs :
          gameStarts'[p] # gameStarts[p] =>
             /\ lobbySubscription[p] # 0
             /\ \E e \in DOMAIN lobbyEv[p] :
                   e.status = "playing" /\ currentLobby'[p] = e
             /\ refresh' = refresh
             /\ startWrites' = startWrites
             /\ call' = call
             /\ leave' = leave]_vars

\* the host and the guest have each been told that the match started
C10_Witness == \A p \in Procs : gameStarts[p] > 0

\* C11: in the store the status of a lobby changes only from 'waiting' to
\* 'playing', only in a step in which the process of its host ran
\* checkAllReady and issued the start update for it, and a lobby row enters
\* the store as 'waiting'; so the status changes at most once and never back
\* to 'waiting'.
C11_StatusOnlyWaitingToPlayingByHost ==
    [][\A l \in LobbyIds :
          LET old == LobbyRow(l)
              new == LobbyRow(l)'
          IN /\ (old = NoLobby /\ new # NoLobby) => new.status = "waiting"
             /\ (old # NoLobby /\ new # NoLobby /\ new.status # old.status) =>
                    /\ old.status = "waiting"
                    /\ new.status = "playing"
                    /\ IssuesStartWriteFor(l)
                    /\ \E t \in refresh[old.host_id] :
                          ChecksAllReady(old.host_id, t)]_vars

\* the host's start update has turned a lobby of the store to 'playing'
C11_Witness ==
    \E l \in LobbyIds :
       /\ LobbyRow(l) # NoLobby
       /\ LobbyRow(l).status = "playing"
       /\ startWrites[l] >= 1

\* C12 (as claimed): the start update is never issued for a lobby that has
\* fewer than 2 membership rows in the store at that moment.
C12_NoStartBelowTwoMembers ==
    [][\A l \in LobbyIds :
          IssuesStartWriteFor(l) => Cardinality(MembersOf(l)) >= 2]_vars

\* a step in which a call of createLobby, findOrCreateLobby or joinByCode on
\* process p returns
CallReturns(p) == call[p] # NoCall /\ call'[p] = NoCall

\* C13 (as claimed): when a store call made by createLobby, findOrCreateLobby
\* or joinByCode has failed, the call returns with the local session context
\* (current lobby, membership snapshot, is-host flag, subscriptions) exactly
\* as it was when the call was made.
C13_FailedCallLeavesContext ==
    [][\A p \in Procs :
          (CallReturns(p) /\ call[p].error # "") =>
              Context(p)' = call[p].before]_vars

\* C14 (as claimed): a call in which a store call failed returned an explicit
\* failure to its caller: no lobby from createLobby, findOrCreateLobby or
\* joinByCode, and not the new flag from toggleReady.
C14_FailureReturnedAsFailure ==
    \A p \in Procs :
       returned[p].error # "" =>
           /\ returned[p].lobby = NoLobby
           /\ ~ returned[p].flag

\* C15: when leaveLobby of a process runs to its end, whether its delete of
\* the membership row and its delete of the lobby row succeeded or failed,
\* the change-feed subscriptions of the process are released and its local
\* session context is cleared.
C15_LeaveIsBestEffort ==
    [][\A p \in Procs :
          LeaveCompletes(p) =>
             /\ lobbySubscription'[p] = 0
             /\ playersSubscription'[p] = 0
             /\ Context(p)' = NoContext]_vars

\* leaveLobby of a process has run to its end although its deletes failed:
\* its membership row is still in the store
C15_Witness ==
    \E p \in Procs :
       /\ leave[p] = "idle"
       /\ Context(p) = NoContext
       /\ \E m \in lobby_players : m.player_id = p

\* checkAllReady on process p reads currentLobby.id of a null currentLobby
CheckAllReadyThrows(p) ==
    AllReady(isHost[p], lobbyPlayers[p]) /\ currentLobby[p] = NoLobby

\* C16: when the lobby_players handler of a process resumes after a re-read
\* that failed, the membership snapshot of the process stays as it was,
\* onPlayersUpdate is not called, and the checkAllReady that follows does not
\* throw.
C16_FailedReReadKeepsSnapshot ==
    [][\A p \in Procs : \A t \in refresh[p] :
          (t.error /\ ChecksAllReady(p, t)) =>
             /\ lobbyPlayers'[p] = lobbyPlayers[p]
             /\ playersCb'[p] = [playersCb[p] EXCEPT !.skipped = TRUE]
             /\ ~ CheckAllReadyThrows(p)]_vars

\* a handler has resumed after a failed re-read and the process still has the
\* snapshot it had
C16_Witness ==
    \E p \in Procs :
       /\ playersCb[p].skipped
       /\ Cardinality(lobbyPlayers[p]) = 2

\* C17 (as claimed): when the waiting lobby discovered by findOrCreateLobby
\* on a process is deleted before the membership insert of the call commits
\* (the insert fails on the foreign key), the call does not return that lobby
\* and the process does not hold it as its current lobby.
C17_DeletedLobbyIsNotJoined ==
    [][\A p \in Procs :
          (/\ CallReturns(p)
           /\ call[p].op = "find"
           /\ call[p].row.host_id # p
           /\ call[p].error = "foreign_key") =>
              /\ returned'[p].lobby # call[p].row
              /\ currentLobby'[p] # call[p].row]_vars

\* process p is subscribed to its current lobby, every membership event for
\* it is delivered, every re-read it started has completed, and no call of p
\* is in progress
Settled(p) ==
    /\ currentLobby[p] # NoLobby
    /\ playersSubscription[p] # 0
    /\ currentLobby[p].id = playersSubscription[p]
    /\ playersEv[p] = 0
    /\ refresh[p] = {}
    /\ call[p] = NoCall
    /\ leave[p] = "idle"

\* C18 (as claimed): once every membership event is delivered to a subscribed
\* process and every re-read it triggered has completed, in whatever order,
\* the membership snapshot of the process equals the store's membership rows
\* of its lobby.
C18_SnapshotConverges ==
    \A p \in Procs :
       Settled(p) => lobbyPlayers[p] = MembersOf(playersSubscription[p])

\* the lobby ids the subscriptions of process p may be scoped to
Scope(p) == IF currentLobby[p] = NoLobby THEN {} ELSE {currentLobby[p].id}

\* C19 (as claimed): a process with no call in progress holds at most one
\* lobby change-feed subscription, one membership change-feed subscription
\* and one broadcast subscription, each scoped to the id of its current
\* lobby, and none when it has no current lobby.
C19_NoAccumulatedSubscriptions ==
    \A p \in Procs :
       (call[p] = NoCall /\ leave[p] = "idle") =>
          /\ lobbySubscription[p] # 0 => lobbySubscription[p] \in Scope(p)
          /\ playersSubscription[p] # 0 => playersSubscription[p] \in Scope(p)
          /\ DOMAIN gameChannels[p] \subseteq Scope(p)
          /\ \A l \in DOMAIN gameChannels[p] : gameChannels[p][l] <= 1

\* leaveLobby has completed on process p and p has not entered a lobby since
HasLeft(p) ==
    /\ currentLobby[p] = NoLobby
    /\ lobbySubscription[p] = 0
    /\ playersSubscription[p] = 0
    /\ call[p] = NoCall
    /\ leave[p] = "idle"

\* C20 (as claimed): once leaveLobby has completed on a process, no step
\* invokes onLobbyUpdate, onPlayersUpdate, onGameStart or onOpponentScore on
\* it, and its cleared membership snapshot stays empty, also when a re-read
\* was in flight when leaveLobby ran.
C20_NoCallbackAfterLeave ==
    [][\A p \in Procs :
          HasLeft(p) =>
             /\ lobbyPlayers'[p] = {}
             /\ playersCb'[p] = playersCb[p]
             /\ lobbyCb'[p] = lobbyCb[p]
             /\ gameStarts'[p] = gameStarts[p]
             /\ oppCb'[p] = oppCb[p]]_vars

\* C21 (as claimed): in every state, where a change-feed callback or the
\* continuation of a re-read can run, the current lobby of a process, its
\* membership snapshot, its is-host flag and its subscriptions all belong to
\* the same lobby (to none when the process has no current lobby).
C21_ContextReplacedAtomically ==
    \A p \in Procs :
       /\ lobbySubscription[p] = currentLobby[p].id
       /\ playersSubscription[p] = currentLobby[p].id
       /\ \A m \in lobbyPlayers[p] : m.lobby_id = currentLobby[p].id
       /\ isHost[p] => currentLobby[p].host_id = p

\* process p holds a lobby of the store as its current lobby and no call of
\* it is in progress
HoldsLobby(p) ==
    /\ LobbyRow(currentLobby[p].id) # NoLobby
    /\ call[p] = NoCall
    /\ leave[p] = "idle"

\* C22 (as claimed): the host_id of a lobby row never changes, and a process
\* that holds the lobby as its current lobby has its is-host flag true
\* exactly when it is the host_id of the lobby, also after the host joined
\* its own lobby again through joinByCode.
C22_OneHostFixedAtCreation ==
    [][/\ \A l \in LobbyIds :
            (LobbyRow(l) # NoLobby /\ LobbyRow(l)' # NoLobby) =>
                LobbyRow(l)'.host_id = LobbyRow(l).host_id
       /\ \A p \in Procs :
            HoldsLobby(p)' =>
                (isHost'[p] <=> LobbyRow(currentLobby[p].id)'.host_id = p)]_vars

\* a step in which a call of p returns whose membership insert was rejected
\* as a duplicate
DuplicateJoinReturns(p) ==
    /\ CallReturns(p)
    /\ call[p].pc = "joined"
    /\ call[p].error = "unique"

\* C23: the store never holds two membership rows of one participant in one
\* lobby, and a call whose membership insert is rejected as a duplicate goes
\* on as already joined: it subscribes to the lobby, issues the re-read of
\* its membership and returns the lobby.
C23_DuplicateJoinIsAlreadyJoined ==
    [][/\ \A m, n \in lobby_players' :
            (m.lobby_id = n.lobby_id /\ m.player_id = n.player_id) => m = n
       /\ \A p \in Procs :
            DuplicateJoinReturns(p) =>
               /\ lobbySubscription'[p] = call[p].row.id
               /\ playersSubscription'[p] = call[p].row.id
               /\ \E t \in refresh'[p] \ refresh[p] : t.lobby = call[p].row.id
               /\ returned'[p].lobby = call[p].row]_vars

\* a join whose insert was rejected as a duplicate has returned the lobby and
\* the process is subscribed to it
C23_Witness ==
    \E p \in Procs :
       /\ returned[p].error = "unique"
       /\ returned[p].lobby # NoLobby
       /\ lobbySubscription[p] = returned[p].lobby.id
       /\ \E m \in lobby_players :
             m.lobby_id = returned[p].lobby.id /\ m.player_id = p

\* lobby row r is what joinByCode(input, ...) looks for
MatchesCode(r, input) == r.code = ToUpperCase(input) /\ r.status = "waiting"

\* C24: the query of joinByCode finds a lobby exactly when a lobby of the
\* store has the uppercased input as its code and status 'waiting', and then
\* it is that lobby; the call returns a lobby only when its query found one;
\* and when the query found none the call returns null with no membership
\* row inserted and the local session context and subscriptions unchanged.
C24_JoinByCodeOnlyWaitingMatch ==
    [][\A p \in Procs :
          /\ \A input \in CodeInputs :
                JoinByCode(p, input) =>
                   /\ call'[p].ok <=>
                         \E r \in game_lobbies : MatchesCode(r, input)
                   /\ call'[p].ok =>
                         /\ call'[p].row \in game_lobbies
                         /\ MatchesCode(call'[p].row, input)
                   /\ lobby_players' = lobby_players
                   /\ Context(p)' = Context(p)
          /\ (CallReturns(p) /\ call[p].op = "join") =>
                IF call[p].ok
                THEN returned'[p].lobby = call[p].row
                ELSE /\ returned'[p].lobby = NoLobby
                     /\ lobby_players' = lobby_players
                     /\ Context(p)' = Context(p)]_vars

\* joinByCode has returned not found while the lobby of the store with the
\* code 'I' is playing
C24_Witness ==
    \E p \in Procs :
       /\ returned[p] = ReturnsLobby("join", NoLobby, "")
       /\ \E r \in game_lobbies :
             r.code = ToUpperCase(<<"i">>) /\ r.status = "playing"

\* the lobbies findOrCreateLobby on p may join
WaitingForOthers(p) ==
    { r \in game_lobbies : r.status = "waiting" /\ r.host_id # p }

\* C25: the query of findOrCreateLobby on p finds a lobby exactly when the
\* store has a waiting lobby whose host is not p, and it is the oldest of
\* them; the call then takes it as current lobby with is-host false; the
\* call inserts a lobby only when its query found none, with p as host, and
\* then returns it with is-host true.
C25_FindJoinsOldestOrCreates ==
    [][\A p \in Procs :
          /\ FindOrCreateLobby(p) =>
                /\ call'[p].ok <=> WaitingForOthers(p) # {}
                /\ call'[p].ok =>
                      /\ call'[p].row \in WaitingForOthers(p)
                      /\ \A o \in WaitingForOthers(p) :
                            call'[p].row.id <= o.id
          /\ (call[p].op = "find" /\ call[p].pc = "selected"
                /\ call'[p].pc = "joined") =>
                /\ call[p].ok
                /\ currentLobby'[p] = call[p].row
                /\ ~ isHost'[p]
          /\ (call[p].op = "find" /\ call[p].pc = "selected"
                /\ call'[p].pc = "inserted") =>
                /\ ~ call[p].ok
                /\ call'[p].ok =>
                      /\ call'[p].row \in game_lobbies' \ game_lobbies
                      /\ call'[p].row.host_id = p
          /\ (call[p].op = "find" /\ call[p].pc = "inserted"
                /\ call[p].ok /\ call'[p].pc = "joined") =>
                /\ currentLobby'[p] = call[p].row
                /\ isHost'[p]]_vars

\* findOrCreateLobby has returned the older of two waiting lobbies hosted by
\* another participant
C25_Witness ==
    \E p \in Procs :
       /\ returned[p].op = "find"
       /\ returned[p].lobby \in WaitingForOthers(p)
       /\ currentLobby[p] = returned[p].lobby
       /\ ~ isHost[p]
       /\ \E o \in WaitingForOthers(p) : o.id > returned[p].lobby.id

\* C26 (as claimed): once the external cleanup has set the status of a lobby
\* to 'abandoned', no step changes the status of that lobby again.
C26_TerminalStatusIsFinal ==
    [][\A l \in LobbyIds :
          (LobbyRow(l).status = "abandoned" /\ LobbyRow(l)' # NoLobby) =>
              LobbyRow(l)'.status = "abandoned"]_vars

\* the lobby insert of the call in progress on p was rejected because its
\* code is the code of a lobby of the store
CodeCollided(p) ==
    /\ call[p].pc = "inserted"
    /\ ~ call[p].ok
    /\ call[p].error = "unique"

\* C27 (as claimed): when the lobby insert of createLobby is rejected on a
\* collision of the generated code, the call does not return failure to its
\* caller (it retries the insert with a new code).
C27_CodeCollisionIsRetried ==
    [][\A p \in Procs :
          CodeCollided(p) =>
              ~ (CallReturns(p) /\ returned'[p].lobby = NoLobby)]_vars

\* the characters a join code may be made of
UpperAlphanumeric ==
    {"A", "B", "C", "D", "E", "F", "G", "H", "I", "J", "K", "L", "M", "N",
     "O", "P", "Q", "R", "S", "T", "U", "V", "W", "X", "Y", "Z",
     "0", "1", "2", "3", "4", "5", "6", "7", "8", "9"}

\* C28 (as claimed): every code generateLobbyCode returned, as createLobby
\* stored it in a lobby row, has exactly 6 characters, each an uppercase
\* letter or a digit.
C28_CodeIsSixUpperAlphanumeric ==
    \A r \in game_lobbies :
       /\ Len(r.code) = 6
       /\ \A k \in 1..Len(r.code) : r.code[k] \in UpperAlphanumeric

\* a step in which a lobby_players event is delivered to p
PlayersEventDelivered(p) == PlayersEvent(p) \/ PlayersEventAgain(p)

\* C29: the delivery of a membership event to a subscribed process starts
\* exactly one re-read, of all the membership rows of the lobby of the
\* channel, and neither publishes nor checks; when the handler resumes after
\* the re-read it publishes the rows read through onPlayersUpdate and then
\* runs the consensus check on the snapshot just published.
C29_ReReadPublishThenCheck ==
    [][\A p \in Procs :
          /\ PlayersEventDelivered(p) =>
                /\ Cardinality(refresh'[p] \ refresh[p]) = 1
                /\ \A t \in refresh'[p] \ refresh[p] :
                      /\ t.check
                      /\ t.lobby = playersSubscription[p]
                      /\ t.data = MembersOf(t.lobby)
                /\ playersCb'[p] = playersCb[p]
                /\ startWrites' = startWrites
          /\ \A t \in refresh[p] :
                (ChecksAllReady(p, t) /\ ~ t.error) =>
                   /\ playersCb'[p] = OnPlayersUpdate(t.data)
                   /\ lobbyPlayers'[p] = playersCb'[p].players
                   /\ IssuesStartWrite <=>
                         AllReady(isHost[p], playersCb'[p].players)]_vars

\* the host's handler has published a snapshot of two ready members and its
\* check has issued the start update
C29_Witness ==
    \E p \in Procs :
       /\ isHost[p]
       /\ currentLobby[p] # NoLobby
       /\ startWrites[currentLobby[p].id] >= 1
       /\ playersCb[p].players = MembersOf(currentLobby[p].id)
       /\ AllReady(TRUE, playersCb[p].players)

\* the step in which createLobby, findOrCreateLobby or joinByCode on p returns
\* a lobby to its caller
ReturnsALobby(p) == CallReturns(p) /\ returned'[p].lobby # NoLobby

\* the rows of a membership snapshot that are p's own row in lobby l
OwnRows(p, l, players) ==
    { m \in players : m.lobby_id = l /\ m.player_id = p }

\* C30 (as claimed): when createLobby, findOrCreateLobby or joinByCode returns
\* a lobby, the process holds both change-feed subscriptions scoped to the id
\* of that lobby and has issued a membership re-read of that lobby whose
\* answer contains the caller's own row; and the first membership snapshot
\* ever published to a process contains the row of that process.
C30_FirstSnapshotHasOwnRow ==
    [][\A p \in Procs :
          /\ ReturnsALobby(p) =>
                LET l == returned'[p].lobby.id
                IN /\ lobbySubscription'[p] = l
                   /\ playersSubscription'[p] = l
                   /\ \E t \in refresh'[p] :
                         /\ t.lobby = l
                         /\ ~ t.check
                         /\ OwnRows(p, l, t.data) # {}
          /\ (playersCb[p] = NoPlayersCb /\ playersCb'[p] # NoPlayersCb) =>
                \E m \in playersCb'[p].players : m.player_id = p]_vars

\* p is not the host of the lobby it holds as its current lobby
NotHostOfCurrent(p) == LobbyRow(currentLobby[p].id).host_id # p

\* C31: a step of leaveLobby only removes rows from the store; made by a
\* participant that is not the host of its current lobby it removes nothing
\* but that participant's own membership row of the current lobby (the lobby
\* rows, and with them every status, and every other membership row and
\* ready flag stay as they are); a lobby row is removed only by the leaveLobby
\* of its host, and only the row of the host's current lobby.
C31_GuestLeaveDeletesOwnRowOnly ==
    [][\A p \in Procs :
          Leaving(p) =>
             /\ game_lobbies' \subseteq game_lobbies
             /\ lobby_players' \subseteq lobby_players
             /\ NotHostOfCurrent(p) =>
                   /\ game_lobbies' = game_lobbies
                   /\ (lobby_players \ lobby_players') \subseteq
                         OwnRows(p, currentLobby[p].id, lobby_players)
             /\ \A r \in game_lobbies \ game_lobbies' :
                   /\ r.host_id = p
                   /\ r.id = currentLobby[p].id
                   /\ isHost[p]]_vars

\* a guest has completed leaveLobby: its row is gone, the lobby row and the
\* host's membership row are still in the store
C31_Witness ==
    \E p \in Procs :
       /\ HasLeft(p)
       /\ playersCb[p] = OnPlayersUpdate({})
       /\ \E r \in game_lobbies :
             /\ r.host_id # p
             /\ OwnRows(p, r.id, lobby_players) = {}
             /\ OwnRows(r.host_id, r.id, lobby_players) # {}

\* C32 (as claimed): a lobby row is removed from the store only by a step of
\* the leaveLobby of its host and only while its status is 'waiting'; a lobby
\* whose status has left 'waiting' stays in the store, in a status other than
\* 'waiting'.
C32_PlayingLobbyIsNeverDeleted ==
    [][\A r \in game_lobbies :
          /\ r \notin game_lobbies' =>
                \/ \E r2 \in game_lobbies' : r2.id = r.id
                \/ /\ r.status = "waiting"
                   /\ Leaving(r.host_id)
          /\ r.status # "waiting" =>
                \E r2 \in game_lobbies' :
                   r2.id = r.id /\ r2.status # "waiting"]_vars

\* the step in which the game_lobbies handler of p ran on the event e
HandlesLobbyEvent(p, e) ==
    /\ LobbyEvent(p)
    /\ e \in DOMAIN lobbyEv[p]
    /\ lobbyEv'[p] = BagRemove(lobbyEv[p], e)

DeliversToListener(m) ==
    /\ BroadcastDeliver(m.to)
    /\ m \in broadcastEv \ broadcastEv'
    /\ m.lobby \in DOMAIN gameChannels[m.to]

\* C34 (as claimed): the delivery of a broadcast message to a listening
\* process invokes onOpponentScore with the payload of the message exactly
\* once when the participant id in the payload differs from the listener's
\* own id, also after listenForOpponentState was called more than once for
\* the lobby, and not at all when the ids are equal.
C34_ForwardedExactlyOnce ==
    [][\A m \in broadcastEv :
          DeliversToListener(m) =>
             oppCb'[m.to] =
                Forwarded(oppCb[m.to], m.payload,
                          IF m.payload.playerId # m.to THEN 1 ELSE 0)]_vars

\* the step in which a createLobby or joinByCode returns on p that p made
\* with no current lobby and no change-feed subscription, and during which no
\* leaveLobby ran on p
ReturnsFromCleanCall(p) ==
    /\ CallReturns(p)
    /\ call[p].op \in {"create", "join"}
    /\ call[p].before.currentLobby = NoLobby
    /\ call[p].before.lobbySubscription = 0
    /\ call[p].before.playersSubscription = 0
    /\ leave[p] = "idle"
    /\ currentLobby[p] = IF call[p].pc = "joined" THEN call[p].row
                         ELSE call[p].before.currentLobby

\* the local session context createLobby or joinByCode leaves on a process
\* that was never in a lobby, when it returns `row` (null: NoLobby)
FreshOutcome(op, row) ==
    IF row = NoLobby THEN NoContext
    ELSE [currentLobby |-> row, lobbyPlayers |-> {},
          isHost |-> (op = "create"), lobbySubscription |-> row.id,
          playersSubscription |-> row.id]

\* C35 (as claimed): a createLobby or joinByCode made by a process with no
\* current lobby and no subscription, after a completed leaveLobby as well
\* as on a process never in a lobby, returns with the local session context
\* and subscriptions that the returned lobby alone determines: those of a
\* process that was never in a lobby.
C35_RejoinIsIndependentOfPast ==
    [][\A p \in Procs :
          ReturnsFromCleanCall(p) =>
             Context(p)' = FreshOutcome(returned'[p].op,
                                        returned'[p].lobby)]_vars

\* in the store lobby l is waiting and has at least 2 members, all ready
StartDue(l) ==
    /\ LobbyRow(l) # NoLobby
    /\ LobbyRow(l).status = "waiting"
    /\ Cardinality(MembersOf(l)) >= 2
    /\ \A m \in MembersOf(l) : m.is_ready

\* C36 (as claimed): once a waiting lobby has at least 2 members, all ready
\* in the store, then, with every change-feed event delivered and every
\* re-read resumed, either its membership changes again or its status
\* becomes 'playing'.
C36_AllReadyLeadsToPlaying ==
    \A l \in LobbyIds :
       StartDue(l) ~> (LobbyRow(l).status = "playing" \/ ~ StartDue(l))

\* no createLobby, findOrCreateLobby, joinByCode or leaveLobby is in progress
\* on p
NoLifecycleCall(p) == call[p] = NoCall /\ leave[p] = "idle"

\* C37 (as claimed): while no lifecycle call is in progress on a process, it
\* holds its lobby and membership change-feed subscriptions exactly when its
\* current lobby is not null.
C37_SubscribedIffInLobby ==
    \A p \in Procs :
       NoLifecycleCall(p) =>
          /\ lobbySubscription[p] # 0 <=> currentLobby[p] # NoLobby
          /\ playersSubscription[p] # 0 <=> currentLobby[p] # NoLobby

\* C38 (as claimed): a toggleReady of a participant that has a membership row
\* in its current lobby sets the ready flag of that row to the negation of the
\* value the row has in the store at that moment, and returns the new value.
C38_ToggleNegatesStoreFlag ==
    [][\A p \in Procs :
          ToggleReady(p) =>
             \A m \in OwnRows(p, currentLobby[p].id, lobby_players) :
                /\ Member(m.lobby_id, p, ~ m.is_ready) \in lobby_players'
                /\ m \notin lobby_players'
                /\ returned'[p].flag = ~ m.is_ready]_vars

\* C39: on every process the is-host flag is true only while the current
\* lobby is not null, so a checkAllReady that gets as far as building the
\* start update never reads the id of a null current lobby.
C39_HostFlagImpliesLobby ==
    \A p \in Procs :
       /\ isHost[p] => currentLobby[p] # NoLobby
       /\ ~ CheckAllReadyThrows(p)

\* a process that created a lobby has completed leaveLobby: its current lobby
\* is null and its is-host flag is false
C39_Witness ==
    \E p \in Procs :
       /\ HasLeft(p)
       /\ ~ isHost[p]
       /\ returned[p].op = "create"
       /\ returned[p].lobby.host_id = p

====
